---- MODULE Spec2Model ----
(***************************************************************************)
(* A model of the satellite pass forecaster: pass_computer.py (the run,    *)
(* collect_TLEs, compute_passes, get_pass_info_list, date_table_generator, *)
(* date_table_to_markdown) and weather/ccmet.py (get_forecast_at_time).    *)
(*                                                                         *)
(* Angles of elevation are counted in half degrees (Deg(40) is 40.0, and   *)
(* Deg(40) + 1 is 40.5), so that the floor taken by compute_passes is not  *)
(* the identity.  Sun zenith angles and cloud cover are whole numbers.     *)
(* A timestamp string "%Y-%m-%d %H:%M:%SZ" is the pair <<day, clock>>:     *)
(* the part before the blank and the part after it.                        *)
(***************************************************************************)
EXTENDS Integers, Sequences, FiniteSets, TLC

VARIABLES
    DEBUG,          \* the module's debug flag, set by --debug
    tle_file,       \* whether tle/satellites.json exists
    args,           \* the parsed command line: minelev, maxclouds
    pc,             \* where the run is
    satellites,     \* the satellites dict: line1, line2, min_elev (<<>> when
                    \* the key is absent), passes
    sat_i, loc_j,   \* compute_passes: the satellite and location in turn
    loc_info,       \* get_pass_info_list: the windows of the pair in turn
    pass_info,      \* get_pass_info_list: the records built so far
    queries,        \* weather queries issued for the record being built
    date_table,     \* the date table: entries <<date, passes>> as inserted
    report,         \* the report's date sections, in order
    index_html,     \* whether index.html was written
    series, time, picked   \* get_forecast_at_time: its input and its result

vars == <<DEBUG, tle_file, args, pc, satellites, sat_i, loc_j, loc_info,
          pass_info, queries, date_table, report, index_html,
          series, time, picked>>

runVars == <<DEBUG, tle_file, args, satellites, sat_i, loc_j, loc_info,
             pass_info, queries, date_table, report, index_html>>

forecastVars == <<series, time, picked>>

----------------------------------------------------------------------------
(* Bounds *)

\* the pass windows the propagator finds in the look-ahead time, all pairs
MaxPasses == 2

\* the samples of a weather time series
MaxSeries == 3

----------------------------------------------------------------------------
(* Configuration *)

Deg(d) == 2 * d

\* two of the satellites, in the order the dict declares them
SatOrder == <<"Sentinel-3A", "SENTINEL-2A">>

\* two of the locations, in the order the dict declares them
LocOrder == <<"Eikeren", "Akersvannet">>

Sats == {SatOrder[i] : i \in 1..Len(SatOrder)}
Locs == {LocOrder[i] : i \in 1..Len(LocOrder)}

\* the "min_elev" the dict declares for a satellite
ConfigMinElev(s) == IF s = "Sentinel-3A" THEN Deg(90 - 30) ELSE Deg(90 - 25)

\* a record before date_table_generator attaches "satellite" and "location"
NoTag == ""

\* the order of Python's str comparison on the names used
NameRank(n) ==
    CASE n = "Akersvannet" -> 1
      [] n = "Eikeren"     -> 2
      [] n = "SENTINEL-2A" -> 3
      [] n = "Sentinel-3A" -> 4

Placeholder1 == "Line1"
Placeholder2 == "Line2"
Fetched == "TLE"

\* the peak instants the propagator may report, three clock times a day,
\* counted from the first: the look-ahead time ends within the second day
Instants == 0..3

\* strftime("%Y-%m-%d %H:%M:%SZ") of an instant: <<date part, clock part>>
Strftime(t) == <<1 + (t \div 3), t % 3>>

\* the instant a timestamp string is parsed back to
Strptime(ts) == (3 * (ts[1] - 1)) + ts[2]

\* the elevations get_observer_look may report at a peak, rounded
Elevations == {Deg(40), Deg(66)}

\* the command lines: the defaults (--minelev 40.0 --maxclouds 101.0),
\* and --minelev 40.5 --maxclouds 50
ArgChoices ==
    {[minelev |-> Deg(40), maxclouds |-> 101],
     [minelev |-> Deg(40) + 1, maxclouds |-> 50]}

\* cloud_area_fraction values of the weather source
CloudLow == 20
CloudHigh == 80

SZA_SAMPLE == 70
SZA_FILTER == 55
CLOUD_SENTINEL == 101
CLOUD_DEBUG == -1

\* astronomy.sun_zenith_angle at a clock time over a location (external):
\* a table with values on both sides of, and on, each threshold
SunZenith(t, loc) ==
    IF loc = "Eikeren"
    THEN CASE t % 3 = 0 -> 50 [] t % 3 = 1 -> 55 [] OTHER -> 71
    ELSE CASE t % 3 = 0 -> 54 [] t % 3 = 1 -> 70 [] OTHER -> 56

\* lexicographic order of two timestamp strings
TsLess(a, b) == a[1] < b[1] \/ (a[1] = b[1] /\ a[2] < b[2])

----------------------------------------------------------------------------
(* Helpers *)

SatIndex(s) == CHOOSE i \in 1..Len(SatOrder) : SatOrder[i] = s

RECURSIVE SumLen(_, _)
SumLen(f, D) ==
    IF D = {} THEN 0
    ELSE LET x == CHOOSE y \in D : TRUE
         IN  Len(f[x]) + SumLen(f, D \ {x})

\* the pass records stored in the satellites dict so far
Found(sats) ==
    LET n(s) == SumLen(sats[s].passes, Locs)
    IN  n(SatOrder[1]) + n(SatOrder[2])

\* the instants of a set, in chronological order
RECURSIVE Chronological(_)
Chronological(W) ==
    IF W = {} THEN <<>>
    ELSE LET m == CHOOSE x \in W : \A y \in W : x <= y
         IN  <<m>> \o Chronological(W \ {m})

\* a list of numbers in ascending order (insertion sort)
RECURSIVE InsertNum(_, _)
InsertNum(x, s) ==
    IF s = <<>> THEN <<x>>
    ELSE IF x < Head(s) THEN <<x>> \o s
    ELSE <<Head(s)>> \o InsertNum(x, Tail(s))

RECURSIVE SortNum(_)
SortNum(s) == IF s = <<>> THEN <<>> ELSE InsertNum(Head(s), SortNum(Tail(s)))

\* np.median of a list of odd length: the middle of the sorted list
Median(vals) == SortNum(vals)[(Len(vals) + 1) \div 2]

\* the grid of get_pass_info_list: range(-1, 2) x range(-1, 2), in order
GridPoints ==
    <<<<-1, -1>>, <<-1, 0>>, <<-1, 1>>,
      <<0, -1>>,  <<0, 0>>,  <<0, 1>>,
      <<1, -1>>,  <<1, 0>>,  <<1, 1>>>>

\* the cloud fractions the weather source may give over the grid: k cloudy
\* points, at the start or at the end of the query order
Grids ==
    {[g \in 1..Len(GridPoints) |-> IF g <= k THEN CloudHigh ELSE CloudLow] :
        k \in 0..Len(GridPoints)}
    \cup
    {[g \in 1..Len(GridPoints) |-> IF g <= k THEN CloudLow ELSE CloudHigh] :
        k \in 0..Len(GridPoints)}

----------------------------------------------------------------------------
(* collect_TLEs *)

\* The loop fetches satellite by satellite; k is the first satellite whose
\* fetch raises (0: none does), and half says that the response of that
\* satellite had two lines only, so that line1 was set before tle[2] raised.
\* Whatever is raised is caught, and the dict is returned.
collect_TLEs(sats, k, half) ==
    [s \in Sats |->
        IF k = 0 \/ SatIndex(s) < k
        THEN [sats[s] EXCEPT !.line1 = Fetched, !.line2 = Fetched]
        ELSE IF SatIndex(s) = k /\ half
        THEN [sats[s] EXCEPT !.line1 = Fetched]
        ELSE sats[s]]

\* Orbital(...) reads the two lines as a TLE and raises on anything else
OrbitalRaises(sat) == sat.line1 # Fetched \/ sat.line2 # Fetched

----------------------------------------------------------------------------
(* The run *)

InitForecastIdle ==
    /\ series = <<>>
    /\ time = 0
    /\ picked = [status |-> "idle", index |-> 0]

Init ==
    /\ DEBUG \in BOOLEAN
    /\ tle_file \in (IF DEBUG THEN BOOLEAN ELSE {FALSE})
    /\ args \in ArgChoices
    /\ pc = "main"
    /\ \E keys \in {Sats, {SatOrder[1]}} :
         satellites =
           [s \in Sats |->
              [line1 |-> Placeholder1, line2 |-> Placeholder2,
               min_elev |-> IF s \in keys THEN <<ConfigMinElev(s)>> ELSE <<>>,
               passes |-> [l \in Locs |-> <<>>]]]
    /\ sat_i = 1
    /\ loc_j = 1
    /\ loc_info = <<>>
    /\ pass_info = <<>>
    /\ queries = <<>>
    /\ date_table = <<>>
    /\ report = <<>>
    /\ index_html = FALSE
    /\ InitForecastIdle

\* __main__, not DEBUG, or DEBUG without a snapshot: collect_TLEs, and in
\* debug mode the dict is saved as the snapshot
MainCollect ==
    /\ pc = "main"
    /\ ~DEBUG \/ ~tle_file
    /\ \E k \in 0..Len(SatOrder), half \in BOOLEAN :
         /\ (k = 0 => ~half)
         /\ satellites' = collect_TLEs(satellites, k, half)
    /\ tle_file' = (DEBUG \/ tle_file)
    /\ pc' = "compute_passes"
    /\ UNCHANGED <<DEBUG, args, sat_i, loc_j, loc_info, pass_info, queries,
                   date_table, report, index_html>>
    /\ UNCHANGED forecastVars

\* __main__, DEBUG with a snapshot: the dict is loaded from it
MainLoad ==
    /\ pc = "main"
    /\ DEBUG /\ tle_file
    /\ satellites' =
         [s \in Sats |->
            [satellites[s] EXCEPT !.line1 = Fetched, !.line2 = Fetched]]
    /\ pc' = "compute_passes"
    /\ UNCHANGED <<DEBUG, tle_file, args, sat_i, loc_j, loc_info, pass_info,
                   queries, date_table, report, index_html>>
    /\ UNCHANGED forecastVars

\* compute_passes: the pair's list is stored, and the loops move on
StorePasses(sats, list) ==
    [sats EXCEPT ![SatOrder[sat_i]].passes[LocOrder[loc_j]] = list]

LastPair == sat_i = Len(SatOrder) /\ loc_j = Len(LocOrder)

Advance ==
    /\ sat_i' = IF loc_j = Len(LocOrder) /\ ~LastPair THEN sat_i + 1 ELSE sat_i
    /\ loc_j' = IF LastPair THEN loc_j
                ELSE IF loc_j = Len(LocOrder) THEN 1 ELSE loc_j + 1
    /\ pc' = IF LastPair THEN "date_table_generator" ELSE "compute_passes"

\* int(minimumElevation // 1), in degrees
Horizon(minimumElevation) == minimumElevation \div 2

\* compute_passes, one pair: the Orbital object is built before the first
\* location of a satellite, then get_next_passes gives the pair's windows
\* in chronological order (at most MaxPasses windows in the whole run);
\* get_pass_info_list of no window returns []
GetNextPasses ==
    /\ pc = "compute_passes"
    /\ IF loc_j = 1 /\ OrbitalRaises(satellites[SatOrder[sat_i]])
       THEN /\ pc' = "orbital_raised"
            /\ UNCHANGED <<satellites, sat_i, loc_j, loc_info, pass_info,
                           queries>>
       ELSE \E W \in SUBSET Instants :
              /\ Cardinality(W) <= MaxPasses - Found(satellites)
              /\ loc_info' = Chronological(W)
              /\ pass_info' = <<>>
              /\ queries' = <<>>
              /\ IF W = {}
                 THEN /\ satellites' = StorePasses(satellites, <<>>)
                      /\ Advance
                 ELSE /\ pc' = "get_pass_info_list"
                      /\ UNCHANGED <<satellites, sat_i, loc_j>>
    /\ UNCHANGED <<DEBUG, tle_file, args, date_table, report, index_html>>
    /\ UNCHANGED forecastVars

\* the record of a window
NewRecord(t, elev, sza, cc) ==
    [UTC0_datetime |-> Strftime(t),
     elevation |-> elev,
     sun_zenith_angle |-> sza,
     cloud_cover |-> cc,
     satellite |-> NoTag,
     location |-> NoTag]

\* a faulty variant of CloudBranch: no sun gate before the weather source
\* is asked
CloudBranchNoGate(debug, sza) == IF debug THEN "debug" ELSE "grid"

\* the branch of get_pass_info_list that decides how the cloud cover is got
CloudBranch(debug, sza) ==
    IF debug THEN "debug"
    ELSE IF sza > SZA_SAMPLE THEN "sentinel"
    ELSE "grid"

\* a faulty variant of CloudWithoutQuery: the debug value in both branches
CloudWithoutQueryDebugValue(branch) == CLOUD_DEBUG

\* the cloud cover of a record for which the weather source is not asked
CloudWithoutQuery(branch) ==
    IF branch = "debug" THEN CLOUD_DEBUG ELSE CLOUD_SENTINEL

\* get_pass_info_list, one window: the record, its cloud cover from the
\* branch taken; a weather query that raises ends the call, and the run;
\* after the last window the list is returned and stored
PassInfoStep ==
    /\ pc = "get_pass_info_list"
    /\ Len(pass_info) < Len(loc_info)
    /\ LET i == Len(pass_info) + 1
           loc == LocOrder[loc_j]
       IN  \E elev \in Elevations :
             /\ elev >= Deg(Horizon(args.minelev))
             /\ LET sza == SunZenith(loc_info[i], loc)
                    branch == CloudBranch(DEBUG, sza)
                    Done(cc, n) ==
                        LET list == Append(pass_info,
                                           NewRecord(loc_info[i], elev, sza, cc))
                        IN  /\ pass_info' = list
                            /\ queries' = Append(queries, n)
                            /\ IF i = Len(loc_info)
                               THEN /\ satellites' =
                                         StorePasses(satellites, list)
                                    /\ Advance
                               ELSE UNCHANGED <<satellites, sat_i, loc_j, pc>>
               IN  CASE branch = "debug" -> Done(CloudWithoutQuery(branch), 0)
                     [] branch = "sentinel" -> Done(CloudWithoutQuery(branch), 0)
                     [] branch = "grid" ->
                          \/ \E grid \in Grids :
                               Done(Median(grid), Len(GridPoints))
                          \/ \E f \in 1..Len(GridPoints) :
                               /\ queries' = Append(queries, f)
                               /\ pc' = "weather_raised"
                               /\ UNCHANGED <<satellites, sat_i, loc_j,
                                              pass_info>>
    /\ UNCHANGED <<DEBUG, tle_file, args, loc_info, date_table, report,
                   index_html>>
    /\ UNCHANGED forecastVars

----------------------------------------------------------------------------
(* date_table_generator *)

\* the passes of the dict in the order the three loops visit them
RECURSIVE Visit(_, _, _, _)
Visit(sats, si, lj, i) ==
    IF si > Len(SatOrder) THEN <<>>
    ELSE IF lj > Len(LocOrder) THEN Visit(sats, si + 1, 1, 1)
    ELSE IF i > Len(sats[SatOrder[si]].passes[LocOrder[lj]])
    THEN Visit(sats, si, lj + 1, 1)
    ELSE <<[satellite |-> SatOrder[si], location |-> LocOrder[lj], index |-> i]>>
         \o Visit(sats, si, lj, i + 1)

\* a faulty variant of EffectiveMinElev: the local min_elev is not set back
\* to the value of the call
EffectiveMinElevCarried(sat, min_elev, min_elev_static) ==
    IF sat.min_elev # <<>> THEN sat.min_elev[1] ELSE min_elev

\* the minimum elevation a record is compared with: the satellite's own
\* when its dict has the key, else the value the function was called with
EffectiveMinElev(sat, min_elev, min_elev_static) ==
    IF sat.min_elev # <<>> THEN sat.min_elev[1] ELSE min_elev_static

\* a faulty variant of TooDark: the sun gate with the sampler's threshold
TooDarkAtSampleGate(rec, loc) ==
    SunZenith(Strptime(rec.UTC0_datetime), loc) > SZA_SAMPLE

\* the sun gate: the angle is computed again, from the timestamp string
TooDark(rec, loc) == SunZenith(Strptime(rec.UTC0_datetime), loc) > SZA_FILTER

Passes(rec, min_elev, max_clouds) ==
    rec.elevation >= min_elev /\ rec.cloud_cover <= max_clouds

\* a faulty variant of DateOf: the other part of the split
DateOfClockPart(rec) == rec.UTC0_datetime[2]

\* pass_list["UTC0_datetime"].split(" ")[0]
DateOf(rec) == rec.UTC0_datetime[1]

\* pass_info["UTC0_datetime"].split(" ")[1]
ClockOf(rec) == rec.UTC0_datetime[2]

HasDate(table, date) == \E k \in 1..Len(table) : table[k].date = date

\* date_table[date].append(dict_obj), with the list created when missing
AppendToDate(table, date, rec) ==
    IF HasDate(table, date)
    THEN [k \in 1..Len(table) |->
            IF table[k].date = date
            THEN [table[k] EXCEPT !.passes = Append(@, rec)]
            ELSE table[k]]
    ELSE Append(table, [date |-> date, passes |-> <<rec>>])

\* one pass of the innermost loop, on the state of the function: the table,
\* the local min_elev, and the dict, whose kept records are tagged in place
FilterStep(st, item, min_elev_static, max_clouds) ==
    LET sat == st.sats[item.satellite]
        rec == sat.passes[item.location][item.index]
    IN  IF TooDark(rec, item.location) THEN st
        ELSE LET m == EffectiveMinElev(sat, st.min_elev, min_elev_static)
                 tagged == [rec EXCEPT !.satellite = item.satellite,
                                       !.location = item.location]
             IN  IF Passes(rec, m, max_clouds)
                 THEN [table |-> AppendToDate(st.table, DateOf(rec), tagged),
                       min_elev |-> m,
                       sats |-> [st.sats EXCEPT
                                   ![item.satellite].passes[item.location][item.index]
                                       = tagged]]
                 ELSE [st EXCEPT !.min_elev = m]

RECURSIVE FilterLoop(_, _, _, _)
FilterLoop(st, items, min_elev_static, max_clouds) ==
    IF items = <<>> THEN st
    ELSE FilterLoop(FilterStep(st, Head(items), min_elev_static, max_clouds),
                    Tail(items), min_elev_static, max_clouds)

date_table_generator(satellites_passes, min_elev, max_clouds) ==
    FilterLoop([table |-> <<>>, min_elev |-> min_elev,
                sats |-> satellites_passes],
               Visit(satellites_passes, 1, 1, 1), min_elev, max_clouds)

DateTableGenerator ==
    /\ pc = "date_table_generator"
    /\ LET out == date_table_generator(satellites, args.minelev, args.maxclouds)
       IN  /\ date_table' = out.table
           /\ satellites' = out.sats
    /\ pc' = "report"
    /\ UNCHANGED <<DEBUG, tle_file, args, sat_i, loc_j, loc_info, pass_info,
                   queries, report, index_html>>
    /\ UNCHANGED forecastVars

----------------------------------------------------------------------------
(* date_table_to_markdown and the rest of the run *)

\* a faulty variant of InsertPass: a sort that is not stable, a record goes
\* before the records of the same timestamp
RECURSIVE InsertPassBefore(_, _)
InsertPassBefore(x, s) ==
    IF s = <<>> THEN <<x>>
    ELSE IF ~TsLess(Head(s).UTC0_datetime, x.UTC0_datetime) THEN <<x>> \o s
    ELSE <<Head(s)>> \o InsertPassBefore(x, Tail(s))

\* a faulty variant of SortPasses: the lists are left as
\* date_table_generator built them
SortPassesNot(s) == s

\* list.sort(key=lambda x: x["UTC0_datetime"]): stable, a record goes
\* after the records of the same timestamp that were before it
RECURSIVE InsertPass(_, _)
InsertPass(x, s) ==
    IF s = <<>> THEN <<x>>
    ELSE IF TsLess(x.UTC0_datetime, Head(s).UTC0_datetime) THEN <<x>> \o s
    ELSE <<Head(s)>> \o InsertPass(x, Tail(s))

RECURSIVE SortPasses(_)
SortPasses(s) ==
    IF s = <<>> THEN <<>>
    ELSE InsertPass(s[Len(s)], SortPasses(SubSeq(s, 1, Len(s) - 1)))

\* the row of a pass in a date's entry
Row(p) ==
    [satellite |-> p.satellite, location |-> p.location, clock |-> ClockOf(p),
     elevation |-> p.elevation, cloud_cover |-> p.cloud_cover]

\* sorted(entries, key=lambda x: x[0])
RECURSIVE InsertEntry(_, _)
InsertEntry(x, s) ==
    IF s = <<>> THEN <<x>>
    ELSE IF x.date < Head(s).date THEN <<x>> \o s
    ELSE <<Head(s)>> \o InsertEntry(x, Tail(s))

\* a faulty variant of SortEntries: the entries are left in the order of
\* the date keys of the table
SortEntriesNot(s) == s

RECURSIVE SortEntries(_)
SortEntries(s) ==
    IF s = <<>> THEN <<>>
    ELSE InsertEntry(s[Len(s)], SortEntries(SubSeq(s, 1, Len(s) - 1)))

\* the table after the call: every date's list sorted in place
SortedTable(table) ==
    [k \in 1..Len(table) |->
        [table[k] EXCEPT !.passes = SortPasses(table[k].passes)]]

\* the text returned: a section per entry, in the order of sorted_entries
date_table_to_markdown(table) ==
    LET sorted == SortedTable(table)
        entries == [k \in 1..Len(sorted) |->
                      [date |-> sorted[k].date,
                       rows |-> [i \in 1..Len(sorted[k].passes) |->
                                   Row(sorted[k].passes[i])]]]
    IN  SortEntries(entries)

\* __main__ from the report on: the markdown of the date table, the table
\* of satellites, which reads "min_elev" of every satellite and raises
\* KeyError when one has none, and index.html
Report ==
    /\ pc = "report"
    /\ date_table' = SortedTable(date_table)
    /\ report' = date_table_to_markdown(date_table)
    /\ IF \E s \in Sats : satellites[s].min_elev = <<>>
       THEN /\ pc' = "min_elev_raised"
            /\ index_html' = FALSE
       ELSE /\ pc' = "done"
            /\ index_html' = TRUE
    /\ UNCHANGED <<DEBUG, tle_file, args, satellites, sat_i, loc_j, loc_info,
                   pass_info, queries>>
    /\ UNCHANGED forecastVars

----------------------------------------------------------------------------
(* weather/ccmet.py: get_forecast_at_time *)

\* the instant datetime(1970, 1, 1) among the instants of a series
EPOCH == 0

\* the instants of the samples and of the request
Times == 0..3

\* the time series: the "time" of each sample, in the source's order
SeriesInputs == UNION {[1..n -> Times] : n \in 1..MaxSeries}

Abs(x) == IF x < 0 THEN -x ELSE x

\* whether the loop takes a sample for the best so far
Closer(diff, time_diff) == diff < time_diff

\* the loop over the time series, from sample k on: best_time is the index
\* of the sample held, 0 for None
RECURSIVE ClosestLoop(_, _, _, _, _)
ClosestLoop(data, t, k, time_diff, best_time) ==
    IF k > Len(data) THEN best_time
    ELSE IF Closer(Abs(t - data[k]), time_diff)
    THEN ClosestLoop(data, t, k + 1, Abs(t - data[k]), k)
    ELSE ClosestLoop(data, t, k + 1, time_diff, best_time)

\* the sample returned; best_time["data"] of None raises TypeError
get_forecast_at_time(data, t) ==
    LET best_time == ClosestLoop(data, t, 1, Abs(EPOCH - t), 0)
    IN  IF best_time = 0
        THEN [status |-> "TypeError", index |-> 0]
        ELSE [status |-> "returned", index |-> best_time]

InitForecast ==
    /\ DEBUG = FALSE
    /\ tle_file = FALSE
    /\ args = [minelev |-> Deg(40), maxclouds |-> 101]
    /\ pc = "forecast"
    /\ satellites = <<>>
    /\ sat_i = 1
    /\ loc_j = 1
    /\ loc_info = <<>>
    /\ pass_info = <<>>
    /\ queries = <<>>
    /\ date_table = <<>>
    /\ report = <<>>
    /\ index_html = FALSE
    /\ series \in SeriesInputs
    /\ time \in Times
    /\ picked = [status |-> "idle", index |-> 0]

GetForecastAtTime ==
    /\ pc = "forecast"
    /\ picked.status = "idle"
    /\ picked' = get_forecast_at_time(series, time)
    /\ UNCHANGED <<series, time, pc>>
    /\ UNCHANGED runVars

NextForecast == GetForecastAtTime

SpecForecast == InitForecast /\ [][NextForecast]_vars

----------------------------------------------------------------------------

Next ==
    \/ MainCollect
    \/ MainLoad
    \/ GetNextPasses
    \/ PassInfoStep
    \/ DateTableGenerator
    \/ Report

Spec == Init /\ [][Next]_vars

----------------------------------------------------------------------------
(* The claims *)

AfterGenerator == pc \in {"report", "done", "min_elev_raised"}
Rendered == pc \in {"done", "min_elev_raised"}

LocIndex(l) == CHOOSE j \in 1..Len(LocOrder) : LocOrder[j] = l

\* the pass records of the dict, by satellite, location and index
PassItems ==
    {it \in [satellite : Sats, location : Locs, index : 1..(MaxPasses + 1)] :
        it.index <= Len(satellites[it.satellite].passes[it.location])}

RecordOf(it) == satellites[it.satellite].passes[it.location][it.index]

TaggedOf(it) ==
    [RecordOf(it) EXCEPT !.satellite = it.satellite, !.location = it.location]

\* the places <<entry, index>> of the date table that hold a record
Positions(r) ==
    UNION {{<<k, i>> : i \in {j \in 1..Len(date_table[k].passes) :
                                date_table[k].passes[j] = r}} :
           k \in 1..Len(date_table)}

TablePlaces ==
    UNION {{<<k, i>> : i \in 1..Len(date_table[k].passes)} :
           k \in 1..Len(date_table)}

\* what the claims say of a record: its sun zenith angle, the minimum
\* elevation of its satellite, and whether the filter is to keep it
ClaimSunZenith(it) == SunZenith(Strptime(RecordOf(it).UTC0_datetime), it.location)

ClaimMinElev(it) ==
    IF satellites[it.satellite].min_elev = <<>>
    THEN args.minelev
    ELSE satellites[it.satellite].min_elev[1]

ClaimKeeps(it) ==
    /\ ClaimSunZenith(it) <= 55
    /\ RecordOf(it).elevation >= ClaimMinElev(it)
    /\ RecordOf(it).cloud_cover <= args.maxclouds

\* C1: the date table of date_table_generator never holds a record whose
\* sun zenith angle, at its timestamp and location, exceeds 55 degrees,
\* whatever its elevation and cloud cover
C1_NoRecordPastSunGate ==
    \A p \in TablePlaces :
        LET r == date_table[p[1]].passes[p[2]]
        IN  SunZenith(Strptime(r.UTC0_datetime), r.location) <= 55

\* C1, its case: a record past 55 degrees that the elevation and cloud
\* tests would keep went through date_table_generator
C1_Witness ==
    /\ pc = "report"
    /\ \E it \in PassItems :
         /\ ClaimSunZenith(it) > 55
         /\ RecordOf(it).elevation >= ClaimMinElev(it)
         /\ RecordOf(it).cloud_cover <= args.maxclouds

\* C2: a record of sun zenith angle at most 55 degrees is kept iff its
\* elevation is at least the effective minimum (the satellite's own
\* min_elev, else the min_elev of the call) and its cloud cover is at most
\* max_clouds
C2_KeptIffElevationAndClouds ==
    AfterGenerator =>
        \A it \in PassItems :
            ClaimSunZenith(it) <= 55 =>
                ((Positions(TaggedOf(it)) # {}) <=>
                    (/\ RecordOf(it).elevation >= ClaimMinElev(it)
                     /\ RecordOf(it).cloud_cover <= args.maxclouds))

\* C2, its case: a satellite without min_elev after a satellite with one,
\* and a record of the second is kept at an elevation below the min_elev of
\* the first
C2_Witness ==
    /\ pc = "report"
    /\ satellites[SatOrder[1]].min_elev # <<>>
    /\ satellites[SatOrder[2]].min_elev = <<>>
    /\ \E a, b \in PassItems :
         /\ a.satellite = SatOrder[1]
         /\ b.satellite = SatOrder[2]
         /\ ClaimSunZenith(a) <= 55
         /\ RecordOf(b).elevation < satellites[SatOrder[1]].min_elev[1]
         /\ Positions(TaggedOf(b)) # {}

\* C3: every record that passes the filter is in the date table exactly
\* once, under the date part of its own timestamp, every record that fails
\* it is absent, and the table holds nothing else
C3_EachKeptRecordOnceUnderItsDate ==
    AfterGenerator =>
        /\ \A it \in PassItems :
             Cardinality(Positions(TaggedOf(it))) = IF ClaimKeeps(it) THEN 1 ELSE 0
        /\ \A p \in TablePlaces :
             LET r == date_table[p[1]].passes[p[2]]
             IN  /\ date_table[p[1]].date = r.UTC0_datetime[1]
                 /\ \E it \in PassItems : TaggedOf(it) = r
        /\ \A k1, k2 \in 1..Len(date_table) :
             date_table[k1].date = date_table[k2].date => k1 = k2

\* C3, its case: two records kept, under two dates
C3_Witness ==
    /\ pc = "report"
    /\ Len(date_table) = 2
    /\ \A k \in 1..Len(date_table) : Len(date_table[k].passes) = 1

NonDecreasing(passes) ==
    \A i, j \in 1..Len(passes) :
        i < j => ~TsLess(passes[j].UTC0_datetime, passes[i].UTC0_datetime)

\* C4 as stated: in the date table date_table_generator returns, before
\* anything is rendered, every date's list is non-decreasing in timestamp
C4_SortedBeforeRendering ==
    pc = "report" =>
        \A k \in 1..Len(date_table) : NonDecreasing(date_table[k].passes)

\* C4 as amended: once date_table_to_markdown has gone over the date
\* table, every date's list is non-decreasing in timestamp
C4_SortedAfterRendering ==
    Rendered =>
        \A k \in 1..Len(date_table) : NonDecreasing(date_table[k].passes)

\* C4, its case: a date holds an earlier record of a satellite or location
\* that the loops visit after those of a later record
C4_Witness ==
    /\ Rendered
    /\ \E k \in 1..Len(date_table) :
         \E i, j \in 1..Len(date_table[k].passes) :
            LET a == date_table[k].passes[i]
                b == date_table[k].passes[j]
            IN  /\ i < j
                /\ TsLess(a.UTC0_datetime, b.UTC0_datetime)
                /\ \/ SatIndex(a.satellite) > SatIndex(b.satellite)
                   \/ /\ a.satellite = b.satellite
                      /\ LocIndex(a.location) > LocIndex(b.location)

\* the records of one date and one timestamp, as pairs of list places
Ties ==
    {t \in [entry : 1..Len(date_table), first : 1..(MaxPasses + 1),
            second : 1..(MaxPasses + 1)] :
        /\ t.first < t.second
        /\ t.second <= Len(date_table[t.entry].passes)
        /\ date_table[t.entry].passes[t.first].UTC0_datetime
             = date_table[t.entry].passes[t.second].UTC0_datetime}

\* C5 as stated: two records of one date and one timestamp are in the
\* order of their satellite names, then of their location names
C5_TiesByName ==
    Rendered =>
        \A t \in Ties :
            LET a == date_table[t.entry].passes[t.first]
                b == date_table[t.entry].passes[t.second]
            IN  \/ NameRank(a.satellite) < NameRank(b.satellite)
                \/ /\ a.satellite = b.satellite
                   /\ NameRank(a.location) <= NameRank(b.location)

\* C5 as amended: two records of one date and one timestamp are in the
\* order in which their satellites, then their locations, are declared
C5_TiesInDeclarationOrder ==
    Rendered =>
        \A t \in Ties :
            LET a == date_table[t.entry].passes[t.first]
                b == date_table[t.entry].passes[t.second]
            IN  \/ SatIndex(a.satellite) < SatIndex(b.satellite)
                \/ /\ a.satellite = b.satellite
                   /\ LocIndex(a.location) < LocIndex(b.location)

\* C5, its case: a rendered date holds two records of one timestamp
C5_Witness == Rendered /\ Ties # {}

\* C6 as stated: in every mode, a record of sun zenith angle above 70
\* degrees has cloud cover 101 and no weather query; one of at most 70
\* degrees for which the weather is queried has exactly 9 queries
C6_SentinelAndQueryCount ==
    \A i \in 1..Len(pass_info) :
        /\ pass_info[i].sun_zenith_angle > 70 =>
              (pass_info[i].cloud_cover = 101 /\ queries[i] = 0)
        /\ (pass_info[i].sun_zenith_angle <= 70 /\ queries[i] > 0) =>
              queries[i] = 9

\* C6 as amended: outside debug mode the same; in debug mode the cloud
\* cover of every record is -1, whatever its sun zenith angle, and no
\* weather query is issued
C6_SentinelOutsideDebug ==
    \A i \in 1..Len(pass_info) :
        IF DEBUG
        THEN pass_info[i].cloud_cover = -1 /\ queries[i] = 0
        ELSE /\ pass_info[i].sun_zenith_angle > 70 =>
                   (pass_info[i].cloud_cover = 101 /\ queries[i] = 0)
             /\ (pass_info[i].sun_zenith_angle <= 70 /\ queries[i] > 0) =>
                   queries[i] = 9

\* C6, its case: one call, outside debug mode, gave a record above 70
\* degrees and a record for which the weather was queried
C6_Witness ==
    /\ ~DEBUG
    /\ \E i, j \in 1..Len(pass_info) :
         /\ pass_info[i].sun_zenith_angle > 70
         /\ pass_info[j].sun_zenith_angle <= 70
         /\ queries[j] > 0

\* C7: a weather query that fails does not end the sampling call with the
\* exception: the run is never left by it
C7_FailedQueryDoesNotAbort == pc # "weather_raised"

\* C8: outside debug mode the run is at no step from compute_passes on
\* with a satellite whose line1 or line2 was not fetched
C8_NoRunOnUnfetchedElements ==
    (/\ ~DEBUG
     /\ pc \in {"compute_passes", "get_pass_info_list", "date_table_generator",
                "report", "done"})
        => \A s \in Sats :
              satellites[s].line1 = Fetched /\ satellites[s].line2 = Fetched

\* C9: for every time series that is not empty and every instant asked
\* for, get_forecast_at_time returns the first of the samples whose
\* timestamp is nearest to the instant
C9_FirstNearestSample ==
    picked.status # "idle" =>
        /\ picked.status = "returned"
        /\ \A k \in 1..Len(series) :
             /\ Abs(time - series[picked.index]) <= Abs(time - series[k])
             /\ Abs(time - series[picked.index]) = Abs(time - series[k])
                  => picked.index <= k

\* the max_clouds of the cloud filters that are to reject an unknown cover
CloudFilters == {0, 50, 100}

\* C10 as stated: in every mode, the cloud cover of a record is within
\* [0, 100] or above 100, and a record for which no weather was queried
\* fails every cloud filter of max_clouds up to 100
C10_CloudInRangeOrSentinel ==
    \A i \in 1..Len(pass_info) :
        /\ \/ pass_info[i].cloud_cover \in 0..100
           \/ pass_info[i].cloud_cover > 100
        /\ queries[i] = 0 =>
             \A mc \in CloudFilters :
                ~Passes(pass_info[i], pass_info[i].elevation, mc)

\* C10 as amended: outside debug mode the same; in debug mode the cloud
\* cover is -1, below the range, and passes every cloud filter from 0 on
C10_CloudInRangeOrSentinelOutsideDebug ==
    \A i \in 1..Len(pass_info) :
        IF DEBUG
        THEN /\ pass_info[i].cloud_cover = -1
             /\ \A mc \in CloudFilters :
                    Passes(pass_info[i], pass_info[i].elevation, mc)
        ELSE /\ \/ pass_info[i].cloud_cover \in 0..100
                \/ pass_info[i].cloud_cover > 100
             /\ queries[i] = 0 =>
                  /\ pass_info[i].cloud_cover > 100
                  /\ \A mc \in CloudFilters :
                        ~Passes(pass_info[i], pass_info[i].elevation, mc)

\* C10, its case: outside debug mode, a record for which no weather was
\* queried, in a run whose max_clouds is below 100
C10_Witness ==
    /\ ~DEBUG
    /\ args.maxclouds <= 100
    /\ \E i \in 1..Len(pass_info) : queries[i] = 0


\* C11: whatever the order in which the date keys were inserted, the
\* report of date_table_to_markdown lists the date sections in strictly
\* ascending calendar order, and every date of the table has exactly one
\* section, which holds the rows of all the records of that date
C11_SectionsAscendingOnePerDate ==
    Rendered =>
        /\ \A a, b \in 1..Len(report) : a < b => report[a].date < report[b].date
        /\ \A k \in 1..Len(date_table) :
             /\ Cardinality({a \in 1..Len(report) :
                               report[a].date = date_table[k].date}) = 1
             /\ \A a \in 1..Len(report) :
                  report[a].date = date_table[k].date =>
                      /\ Len(report[a].rows) = Len(date_table[k].passes)
                      /\ \A i \in 1..Len(date_table[k].passes) :
                           /\ report[a].rows[i].satellite
                                = date_table[k].passes[i].satellite
                           /\ report[a].rows[i].location
                                = date_table[k].passes[i].location
                           /\ report[a].rows[i].clock
                                = date_table[k].passes[i].UTC0_datetime[2]
        /\ \A a \in 1..Len(report) :
             \E k \in 1..Len(date_table) : date_table[k].date = report[a].date

\* C11, its case: the report was made of a table whose date keys were
\* inserted in descending order
C11_Witness ==
    /\ Rendered
    /\ \E k1, k2 \in 1..Len(date_table) :
         k1 < k2 /\ date_table[k1].date > date_table[k2].date

====
